---- MODULE Spec2Model ----
(***************************************************************************)
(* Model of ExportVisibleFiles.py: an add-in command that scans the active *)
(* design for visible components and bodies and exports each of them       *)
(* through the host's export manager into a folder chosen by the user.     *)
(*                                                                         *)
(* Strings are sequences of tokens (one token per character; a file        *)
(* extension or a fixed message text is a single token without separator). *)
(* The host (document, dialogs, export manager) is modelled by the state   *)
(* it exposes to the script: the component collection, the command inputs, *)
(* the progress dialog, the message boxes shown, the calls of the export   *)
(* manager and the files it wrote.                                         *)
(***************************************************************************)
EXTENDS Integers, Sequences, FiniteSets, TLC

VARIABLES
    design,            \* root_comp.allComponents: Seq of [name, isVisible, bRepBodies]
    exportComponents,  \* value of the 'exportComponents' checkbox
    exportBodies,      \* value of the 'exportBodies' checkbox
    fileFormat,        \* name of the selected item of the 'fileFormat' dropdown
    fileCount,         \* text of the read-only 'fileCount' box
    pc,                \* position of the command / of CommandExecuteHandler.notify
    visible_items,     \* local of CommandExecuteHandler.notify
    folder,            \* local of CommandExecuteHandler.notify
    idx,               \* loop variable i of CommandExecuteHandler.notify
    progress,          \* the host's progress dialog
    messageBoxes,      \* message boxes shown by ui.messageBox, in order
    executed,          \* calls of exportMgr.execute, in order
    files,             \* paths written by the export manager
    attempts,          \* calls of export_entity made by the loop, with their outcome
    raised,            \* an exception reached the catch-all handler of notify
    arg,               \* argument of a helper applied on its own
    ret                \* result of a helper applied on its own

vars == <<design, exportComponents, exportBodies, fileFormat, fileCount, pc,
          visible_items, folder, idx, progress, messageBoxes, executed, files,
          attempts, raised, arg, ret>>

----------------------------------------------------------------------------
(* Bounds *)

MaxEntities == 3    \* components plus bodies of a design
MaxLen == 3         \* length of a name given to sanitize_filename on its own

(* Characters names are made of: a letter, a digit, the four allowed       *)
(* punctuation characters, two path separators, a drive colon and a tab.   *)
Alphabet == {"a", "7", " ", ".", "_", "-", "/", "\\", ":", "\t"}

(* Names given to the entities of a design. *)
EntityNames == {<<"a">>, <<"/", "a", " ">>, <<"b">>}

(* Names given to export_entity applied on its own. *)
ExportNames == {<<"a">>, <<"/", "a", " ">>, <<".", ".">>, <<>>, <<"\\", ":", "a", "\t">>}

(* What ui.selectFolderDialog can return: nothing, or a folder. *)
Folders == {<<>>, <<"/", "o">>, <<"/", "o", "/">>}

None == <<>>

----------------------------------------------------------------------------
(* Helper functions *)

Last(s) == s[Len(s)]

Front(s) == SubSeq(s, 1, Len(s) - 1)

(* str.isalnum on the alphabet *)
IsAlnum(c) == c \in {"a", "7"}

(* the characters str.rstrip() removes, on the alphabet *)
IsSpace(c) == c \in {" ", "\t"}

Digit(n) == <<"0", "1", "2", "3", "4", "5", "6", "7", "8", "9">>[n + 1]

(* str(n) for n >= 0 *)
RECURSIVE Str(_)
Str(n) == IF n < 10 THEN <<Digit(n)>> ELSE Str(n \div 10) \o <<Digit(n % 10)>>

CompEntity(all, c) == [kind |-> "Component", c |-> c, b |-> 0, name |-> all[c].name]

BodyEntity(all, c, b) ==
    [kind |-> "BRepBody", c |-> c, b |-> b, name |-> all[c].bRepBodies[b].name]

(* for comp in root_comp.allComponents: if comp.isVisible: append *)
RECURSIVE ComponentLoop(_, _, _)
ComponentLoop(all, c, items) ==
    IF c > Len(all) THEN items
    ELSE ComponentLoop(all, c + 1,
            IF all[c].isVisible THEN Append(items, CompEntity(all, c)) ELSE items)

(* for body in comp.bRepBodies: if body.isVisible: append *)
RECURSIVE BodyLoop(_, _, _, _)
BodyLoop(all, c, b, items) ==
    IF b > Len(all[c].bRepBodies) THEN items
    ELSE BodyLoop(all, c, b + 1,
            IF all[c].bRepBodies[b].isVisible
            THEN Append(items, BodyEntity(all, c, b)) ELSE items)

(* Variant: the bodies of hidden components are skipped. *)
RECURSIVE ComponentBodiesLoopVisibleOnly(_, _, _)
ComponentBodiesLoopVisibleOnly(all, c, items) ==
    IF c > Len(all) THEN items
    ELSE ComponentBodiesLoopVisibleOnly(all, c + 1,
            IF all[c].isVisible THEN BodyLoop(all, c, 1, items) ELSE items)

(* for comp in root_comp.allComponents: for body in comp.bRepBodies *)
RECURSIVE ComponentBodiesLoop(_, _, _)
ComponentBodiesLoop(all, c, items) ==
    IF c > Len(all) THEN items
    ELSE ComponentBodiesLoop(all, c + 1, BodyLoop(all, c, 1, items))

GetVisibleEntities(all, export_components, export_bodies) ==
    LET comps == IF export_components THEN ComponentLoop(all, 1, <<>>) ELSE <<>>
    IN  IF export_bodies THEN ComponentBodiesLoop(all, 1, comps) ELSE comps

(* Variant: the path separator is on the allow-list. *)
AllowedCharSep(c) == IsAlnum(c) \/ c \in {" ", ".", "_", "-", "/"}

(* c.isalnum() or c in (' ', '.', '_', '-') *)
AllowedChar(c) == IsAlnum(c) \/ c \in {" ", ".", "_", "-"}

RECURSIVE RStrip(_)
RStrip(s) == IF s = <<>> \/ ~IsSpace(Last(s)) THEN s ELSE RStrip(Front(s))

(* Variant: the trailing whitespace is kept. *)
SanitizeNoStrip(name) == SelectSeq(name, AllowedChar)

SanitizeFilename(name) == RStrip(SelectSeq(name, AllowedChar))

Formats == <<"STEP", "STL", "IGES", "SAT">>

FormatSet == {Formats[i] : i \in 1..Len(Formats)}

GetFileExtension(format_str) ==
    CASE format_str = "STEP" -> "step"
      [] format_str = "STL"  -> "stl"
      [] format_str = "IGES" -> "igs"
      [] format_str = "SAT"  -> "sat"
      [] OTHER               -> "stp"

(* os.path.join(a, b) of posixpath *)
PathJoin(a, b) ==
    IF b # <<>> /\ b[1] = "/" THEN b
    ELSE IF a = <<>> \/ Last(a) = "/" THEN a \o b
    ELSE a \o <<"/">> \o b

FileName(entity, export_format) ==
    SanitizeFilename(entity.name) \o <<".">> \o <<GetFileExtension(export_format)>>

FilePath(entity, fld, export_format) == PathJoin(fld, FileName(entity, export_format))

(* exportMgr.execute(options): the host writes the file, or fails *)
Execute(ctor, filepath, entity, outcome) ==
    [boxes  |-> <<>>,
     calls  |-> <<[ctor |-> ctor, path |-> filepath, entity |-> entity,
                   written |-> (outcome = "ok")]>>,
     raised |-> (outcome # "ok")]

Unsupported(text) ==
    [boxes |-> <<[kind |-> "Unsupported", text |-> text]>>, calls |-> <<>>, raised |-> FALSE]

(* Variant: a body is exported whatever the format. *)
ExportEntityAnyBody(entity, fld, export_format, outcome) ==
    LET filepath == FilePath(entity, fld, export_format)
    IN  IF entity.kind = "Component" /\ export_format \notin FormatSet
        THEN Unsupported(<<"Unsupported format: ", export_format>>)
        ELSE Execute("createSTLExportOptions", filepath, entity, outcome)

ExportEntity(entity, fld, export_format, outcome) ==
    LET filepath == FilePath(entity, fld, export_format)
    IN  IF entity.kind = "Component" THEN
            CASE export_format = "STEP" -> Execute("createSTEPExportOptions", filepath, entity, outcome)
              [] export_format = "IGES" -> Execute("createIGESExportOptions", filepath, entity, outcome)
              [] export_format = "SAT"  -> Execute("createSATExportOptions", filepath, entity, outcome)
              [] export_format = "STL"  -> Execute("createSTLExportOptions", filepath, entity, outcome)
              [] OTHER -> Unsupported(<<"Unsupported format: ", export_format>>)
        ELSE
            IF export_format = "STL"
            THEN Execute("createSTLExportOptions", filepath, entity, outcome)
            ELSE Unsupported(<<"Bodies can only be exported as STL">>)

WrittenPaths(calls) == {calls[j].path : j \in {k \in 1..Len(calls) : calls[k].written}}

----------------------------------------------------------------------------
(* The designs the host can hold *)

Body == [name : EntityNames, isVisible : BOOLEAN]

RECURSIVE BodyLists(_)
BodyLists(n) ==
    IF n = 0 THEN {<<>>}
    ELSE {<<b>> \o rest : b \in Body, rest \in BodyLists(n - 1)}

ComponentsWith(n) == [name : EntityNames, isVisible : BOOLEAN, bRepBodies : BodyLists(n)]

(* the component collections with at most n entities *)
RECURSIVE Designs(_)
Designs(n) ==
    {<<>>} \cup
    UNION {{<<comp>> \o rest : comp \in ComponentsWith(k), rest \in Designs(n - 1 - k)}
             : k \in 0..(n - 1)}

----------------------------------------------------------------------------
(* The command *)

NoProgress == [created |-> FALSE, shown |-> FALSE, min |-> 0, max |-> 0, value |-> 0]

Init ==
    /\ design \in Designs(MaxEntities) \ {<<>>}
    /\ exportComponents = FALSE
    /\ exportBodies = FALSE
    /\ fileFormat = None
    /\ fileCount = None
    /\ pc = "none"
    /\ visible_items = <<>>
    /\ folder = None
    /\ idx = 0
    /\ progress = NoProgress
    /\ messageBoxes = <<>>
    /\ executed = <<>>
    /\ files = {}
    /\ attempts = <<>>
    /\ raised = FALSE
    /\ arg = None
    /\ ret = None

(* CommandCreatedHandler.notify *)
CommandCreated ==
    /\ pc = "none"
    /\ exportComponents' = TRUE
    /\ exportBodies' = TRUE
    /\ fileFormat' = "STEP"
    /\ fileCount' = <<"0">>
    /\ pc' = "dialog"
    /\ UNCHANGED <<design, visible_items, folder, idx, progress, messageBoxes,
                   executed, files, attempts, raised, arg, ret>>

(* InputChangedHandler.notify, after the host changed the inputs *)
InputChangedHandler(ec, eb, fmt) ==
    /\ exportComponents' = ec
    /\ exportBodies' = eb
    /\ fileFormat' = fmt
    /\ fileCount' = Str(Len(GetVisibleEntities(design, ec, eb)))
    /\ UNCHANGED <<design, pc, visible_items, folder, idx, progress, messageBoxes,
                   executed, files, attempts, raised, arg, ret>>

ToggleComponents ==
    /\ pc = "dialog"
    /\ InputChangedHandler(~exportComponents, exportBodies, fileFormat)

ToggleBodies ==
    /\ pc = "dialog"
    /\ InputChangedHandler(exportComponents, ~exportBodies, fileFormat)

SelectFormat ==
    /\ pc = "dialog"
    /\ \E f \in FormatSet \ {fileFormat} :
          InputChangedHandler(exportComponents, exportBodies, f)

(* CommandExecuteHandler.notify up to the loop *)
ExecuteStart ==
    /\ pc = "dialog"
    /\ visible_items' = GetVisibleEntities(design, exportComponents, exportBodies)
    /\ \E f \in Folders :
          /\ folder' = f
          /\ IF f = <<>>
             THEN /\ pc' = "done"
                  /\ UNCHANGED progress
             ELSE /\ progress' = [created |-> TRUE, shown |-> TRUE, min |-> 0,
                                  max |-> Len(visible_items'), value |-> 0]
                  /\ pc' = IF Len(visible_items') = 0 THEN "finish" ELSE "export"
    /\ UNCHANGED <<design, exportComponents, exportBodies, fileFormat, fileCount, idx,
                   messageBoxes, executed, files, attempts, raised, arg, ret>>

FailureBox(calls) ==
    [kind |-> "Failed in CommandExecuteHandler", text |-> <<"traceback", Last(calls).path>>]

(* Variant: the exception is caught inside the loop, which goes on. *)
ExportStepContinue ==
    /\ pc = "export"
    /\ \E outcome \in {"ok", "raise"} :
          LET r == ExportEntity(visible_items[idx + 1], folder, fileFormat, outcome)
          IN  /\ executed' = executed \o r.calls
              /\ files' = files \cup WrittenPaths(r.calls)
              /\ attempts' = Append(attempts,
                    [entity |-> visible_items[idx + 1],
                     outcome |-> IF r.raised THEN "raised"
                                 ELSE IF r.calls # <<>> THEN "executed" ELSE "unsupported"])
              /\ messageBoxes' = IF r.raised
                                 THEN Append(messageBoxes \o r.boxes, FailureBox(r.calls))
                                 ELSE messageBoxes \o r.boxes
              /\ raised' = (raised \/ r.raised)
              /\ pc' = "progress"
    /\ UNCHANGED <<design, exportComponents, exportBodies, fileFormat, fileCount,
                   visible_items, folder, idx, progress, arg, ret>>

(* export_entity(item, folder, export_format) in the loop, and the catch-all handler *)
ExportStep ==
    /\ pc = "export"
    /\ \E outcome \in {"ok", "raise"} :
          LET r == ExportEntity(visible_items[idx + 1], folder, fileFormat, outcome)
          IN  /\ executed' = executed \o r.calls
              /\ files' = files \cup WrittenPaths(r.calls)
              /\ attempts' = Append(attempts,
                    [entity |-> visible_items[idx + 1],
                     outcome |-> IF r.raised THEN "raised"
                                 ELSE IF r.calls # <<>> THEN "executed" ELSE "unsupported"])
              /\ IF r.raised
                 THEN /\ messageBoxes' = Append(messageBoxes \o r.boxes, FailureBox(r.calls))
                      /\ raised' = TRUE
                      /\ pc' = "done"
                 ELSE /\ messageBoxes' = messageBoxes \o r.boxes
                      /\ raised' = raised
                      /\ pc' = "progress"
    /\ UNCHANGED <<design, exportComponents, exportBodies, fileFormat, fileCount,
                   visible_items, folder, idx, progress, arg, ret>>

(* Variant: the progress value is set to i. *)
ProgressStepOffByOne ==
    /\ pc = "progress"
    /\ progress' = [progress EXCEPT !.value = idx]
    /\ idx' = idx + 1
    /\ pc' = IF idx + 1 < Len(visible_items) THEN "export" ELSE "finish"
    /\ UNCHANGED <<design, exportComponents, exportBodies, fileFormat, fileCount,
                   visible_items, folder, messageBoxes, executed, files, attempts,
                   raised, arg, ret>>

(* progress.progressValue = i + 1, and the loop's next iteration *)
ProgressStep ==
    /\ pc = "progress"
    /\ progress' = [progress EXCEPT !.value = idx + 1]
    /\ idx' = idx + 1
    /\ pc' = IF idx + 1 < Len(visible_items) THEN "export" ELSE "finish"
    /\ UNCHANGED <<design, exportComponents, exportBodies, fileFormat, fileCount,
                   visible_items, folder, messageBoxes, executed, files, attempts,
                   raised, arg, ret>>

(* progress.hide() and the final message box *)
Finish ==
    /\ pc = "finish"
    /\ progress' = [progress EXCEPT !.shown = FALSE]
    /\ messageBoxes' = Append(messageBoxes,
            [kind |-> "Exported", text |-> <<"Exported ">> \o Str(Len(visible_items))
                                            \o <<" files successfully.">>])
    /\ pc' = "done"
    /\ UNCHANGED <<design, exportComponents, exportBodies, fileFormat, fileCount,
                   visible_items, folder, idx, executed, files, attempts, raised,
                   arg, ret>>

Next ==
    \/ CommandCreated
    \/ ToggleComponents
    \/ ToggleBodies
    \/ SelectFormat
    \/ ExecuteStart
    \/ ExportStep
    \/ ProgressStep
    \/ Finish

Spec == Init /\ [][Next]_vars

----------------------------------------------------------------------------
(* sanitize_filename applied on its own to every name up to MaxLen *)

Names(n) == UNION {[1..k -> Alphabet] : k \in 0..n}

Idle ==
    /\ design = <<>>
    /\ exportComponents = FALSE
    /\ exportBodies = FALSE
    /\ fileCount = None
    /\ idx = 0
    /\ progress = NoProgress
    /\ messageBoxes = <<>>
    /\ executed = <<>>
    /\ files = {}
    /\ attempts = <<>>
    /\ raised = FALSE

InitSanitize ==
    /\ Idle
    /\ fileFormat = None
    /\ visible_items = <<>>
    /\ folder = None
    /\ pc = "call"
    /\ arg \in Names(MaxLen)
    /\ ret = None

CallSanitize ==
    /\ pc = "call"
    /\ ret' = SanitizeFilename(arg)
    /\ pc' = "returned"
    /\ UNCHANGED <<design, exportComponents, exportBodies, fileFormat, fileCount,
                   visible_items, folder, idx, progress, messageBoxes, executed, files,
                   attempts, raised, arg>>

NextSanitize == CallSanitize

SpecSanitize == InitSanitize /\ [][NextSanitize]_vars

----------------------------------------------------------------------------
(* export_entity applied on its own to every entity kind and format tag *)

EntityKinds == {"Component", "BRepBody"}

InitExport ==
    /\ Idle
    /\ \E kind \in EntityKinds, name \in ExportNames :
          visible_items = <<[kind |-> kind, c |-> 1, b |-> IF kind = "Component" THEN 0 ELSE 1,
                             name |-> name]>>
    /\ fileFormat \in FormatSet \cup {"OBJ"}
    /\ folder \in Folders \ {<<>>}
    /\ pc = "call"
    /\ arg = None
    /\ ret = None

CallExportEntity ==
    /\ pc = "call"
    /\ \E outcome \in {"ok", "raise"} :
          LET r == ExportEntity(visible_items[1], folder, fileFormat, outcome)
          IN  /\ executed' = executed \o r.calls
              /\ files' = files \cup WrittenPaths(r.calls)
              /\ messageBoxes' = messageBoxes \o r.boxes
              /\ raised' = r.raised
    /\ pc' = "returned"
    /\ UNCHANGED <<design, exportComponents, exportBodies, fileFormat, fileCount,
                   visible_items, folder, idx, progress, attempts, arg, ret>>

NextExport == CallExportEntity

SpecExport == InitExport /\ [][NextExport]_vars

----------------------------------------------------------------------------
(* Properties *)

Running == pc \in {"export", "progress", "finish", "done"} /\ folder # <<>>

Boxes(kind) == {j \in 1..Len(messageBoxes) : messageBoxes[j].kind = kind}

SuccessText(n) == <<"Exported ">> \o Str(n) \o <<" files successfully.">>

(* C1: in one batch, any two distinct entities of the visible list get     *)
(* different destination paths, so no export overwrites a file of the same *)
(* batch.                                                                  *)
C1_DistinctPaths ==
    Running =>
        \A i, j \in 1..Len(visible_items) :
            i # j => FilePath(visible_items[i], folder, fileFormat)
                       # FilePath(visible_items[j], folder, fileFormat)

(* C2: when export_entity raises on the k-th item the batch is aborted:    *)
(* notify has returned, the export manager ran for none of the later       *)
(* items, no success message and exactly one failure box with the trace    *)
(* were shown, and the files written before the k-th item are in place.    *)
C2_AbortOnException ==
    raised =>
        LET k == Len(attempts)
        IN  /\ pc = "done"
            /\ k >= 1
            /\ k <= Len(visible_items)
            /\ attempts[k].outcome = "raised"
            /\ \A j \in 1..k : attempts[j].entity = visible_items[j]
            /\ \A j \in 1..(k - 1) : attempts[j].outcome # "raised"
            /\ \A j \in 1..Len(executed) :
                  \E m \in 1..k : executed[j].entity = visible_items[m]
            /\ Boxes("Exported") = {}
            /\ Cardinality(Boxes("Failed in CommandExecuteHandler")) = 1
            /\ \A j \in Boxes("Failed in CommandExecuteHandler") :
                  messageBoxes[j].text[1] = "traceback"
            /\ \A j \in 1..(k - 1) :
                  attempts[j].outcome = "executed"
                     => FilePath(visible_items[j], folder, fileFormat) \in files
            /\ files = WrittenPaths(executed)

C2_Witness ==
    /\ raised
    /\ Len(attempts) = 2
    /\ Len(visible_items) = 3
    /\ files # {}

VisibleComponentIds(all) == {c \in 1..Len(all) : all[c].isVisible}

VisibleBodyIds(all) ==
    UNION {{<<c, b>> : b \in {k \in 1..Len(all[c].bRepBodies) : all[c].bRepBodies[k].isVisible}}
             : c \in 1..Len(all)}

(* C3: the visible list is the visible components in collection order     *)
(* (when components are exported) followed by the visible bodies of every  *)
(* component, hidden or not (when bodies are exported), and nothing else.  *)
C3_VisibleEntities ==
    Running =>
        LET r  == visible_items
            nc == IF exportComponents THEN Cardinality(VisibleComponentIds(design)) ELSE 0
            nb == IF exportBodies THEN Cardinality(VisibleBodyIds(design)) ELSE 0
        IN  /\ Len(r) = nc + nb
            /\ \A i \in 1..Len(r) :
                  IF i <= nc
                  THEN /\ r[i].kind = "Component"
                       /\ r[i].c \in VisibleComponentIds(design)
                       /\ r[i].name = design[r[i].c].name
                  ELSE /\ r[i].kind = "BRepBody"
                       /\ <<r[i].c, r[i].b>> \in VisibleBodyIds(design)
                       /\ r[i].name = design[r[i].c].bRepBodies[r[i].b].name
            /\ \A i, j \in 1..nc : i < j => r[i].c < r[j].c
            /\ \A i, j \in (nc + 1)..Len(r) : i # j => <<r[i].c, r[i].b>> # <<r[j].c, r[j].b>>
            /\ (~exportComponents /\ ~exportBodies) => r = <<>>

C3_Witness ==
    /\ Running
    /\ exportComponents /\ exportBodies
    /\ \E i, j \in 1..Len(visible_items) :
          /\ visible_items[i].kind = "Component"
          /\ visible_items[j].kind = "BRepBody"
          /\ ~design[visible_items[j].c].isVisible

ExpectedCtor(fmt) ==
    CASE fmt = "STEP" -> "createSTEPExportOptions"
      [] fmt = "IGES" -> "createIGESExportOptions"
      [] fmt = "SAT"  -> "createSATExportOptions"
      [] fmt = "STL"  -> "createSTLExportOptions"

ExpectedExtension(fmt) ==
    CASE fmt = "STEP" -> "step"
      [] fmt = "IGES" -> "igs"
      [] fmt = "SAT"  -> "sat"
      [] fmt = "STL"  -> "stl"

(* C4: export_entity runs the export manager exactly once, through the     *)
(* constructor and to the extension of the format, for a component with    *)
(* one of the four formats and for a body with STL; for any other          *)
(* combination it shows exactly one message box and writes nothing.        *)
C4_ExportDispatch ==
    pc = "returned" =>
        LET e == visible_items[1]
            supported == \/ e.kind = "Component" /\ fileFormat \in {"STEP", "IGES", "SAT", "STL"}
                         \/ e.kind = "BRepBody" /\ fileFormat = "STL"
        IN  IF supported
            THEN /\ Len(executed) = 1
                 /\ messageBoxes = <<>>
                 /\ executed[1].entity = e
                 /\ executed[1].ctor = ExpectedCtor(fileFormat)
                 /\ Last(executed[1].path) = ExpectedExtension(fileFormat)
                 /\ executed[1].path[Len(executed[1].path) - 1] = "."
            ELSE /\ executed = <<>>
                 /\ Len(messageBoxes) = 1
                 /\ files = {}
                 /\ ~raised

C4_Witness ==
    /\ pc = "returned"
    /\ visible_items[1].kind = "BRepBody"
    /\ fileFormat = "IGES"
    /\ Len(messageBoxes) = 1

Kept(name) == {i \in 1..Len(name) : IsAlnum(name[i]) \/ name[i] \in {" ", ".", "_", "-"}}

NthKept(name, j) ==
    CHOOSE p \in Kept(name) : Cardinality({q \in Kept(name) : q <= p}) = j

(* C5: sanitize_filename(name) is the allowed characters of name in their  *)
(* order, without the trailing whitespace: it holds no other character,    *)
(* does not end in whitespace and is a fixed point of sanitize_filename.   *)
C5_Sanitize ==
    pc = "returned" =>
        LET n == Cardinality(Kept(arg))
            m == Len(ret)
        IN  /\ m <= n
            /\ \A j \in 1..m : ret[j] = arg[NthKept(arg, j)]
            /\ \A j \in (m + 1)..n : IsSpace(arg[NthKept(arg, j)])
            /\ \A j \in 1..m : IsAlnum(ret[j]) \/ ret[j] \in {" ", ".", "_", "-"}
            /\ m > 0 => ~IsSpace(ret[m])
            /\ SanitizeFilename(ret) = ret

C5_Witness ==
    /\ pc = "returned"
    /\ Len(ret) >= 1
    /\ Len(ret) < Cardinality(Kept(arg))
    /\ Cardinality(Kept(arg)) < Len(arg)

C6_Inv ==
    /\ pc \in {"export", "progress", "finish"} =>
          /\ progress.shown
          /\ progress.min = 0
          /\ progress.max = Len(visible_items)
    /\ progress.value <= Len(visible_items)
    /\ \A j \in 1..Len(attempts) : attempts[j].entity = visible_items[j]
    /\ attempts # <<>> => progress.created
    /\ pc = "export" => progress.value = Len(attempts)
    /\ pc = "progress" =>
          /\ progress.value = Len(attempts) - 1
          /\ Last(attempts).outcome # "raised"
    /\ pc = "finish" =>
          /\ progress.value = Len(visible_items)
          /\ Len(attempts) = Len(visible_items)

C6_Step ==
    /\ progress'.value >= progress.value
    /\ progress'.value # progress.value =>
          /\ progress'.value = Len(attempts)
          /\ attempts' = attempts
          /\ Last(attempts).outcome # "raised"
    /\ attempts' # attempts =>
          /\ Len(attempts') = Len(attempts) + 1
          /\ progress.shown
          /\ progress.value = Len(attempts)
          /\ progress' = progress

(* C6: the items are exported one at a time in list order; the progress    *)
(* dialog is shown with range 0..len before the first export, its value    *)
(* becomes i only between the return of the i-th export and the start of   *)
(* the next, never decreases, never exceeds len, and is len at loop exit.  *)
C6_Progress == [](C6_Inv) /\ [][C6_Step]_vars

C6_Witness ==
    /\ pc = "finish"
    /\ Len(visible_items) = 3
    /\ progress.value = 3

Separators == {"/", "\\"}

DirectChild(path, fld) ==
    LET base == IF Last(fld) = "/" THEN fld ELSE fld \o <<"/">>
        name == SubSeq(path, Len(base) + 1, Len(path))
    IN  /\ Len(path) > Len(base)
        /\ SubSeq(path, 1, Len(base)) = base
        /\ \A i \in 1..Len(name) : name[i] \notin Separators
        /\ name \notin {<<".">>, <<".", ".">>}

(* C7: every path handed to the export manager is a direct child of the    *)
(* chosen folder; when no folder is chosen notify returns without a        *)
(* progress dialog, an export or a message box.                            *)
C7_InsideFolder ==
    /\ \A j \in 1..Len(executed) : DirectChild(executed[j].path, folder)
    /\ (pc = "done" /\ folder = <<>>) =>
          /\ ~progress.created
          /\ executed = <<>>
          /\ messageBoxes = <<>>
          /\ files = {}

C7_Witness ==
    /\ Len(executed) >= 2
    /\ \E j \in 1..Len(executed) : executed[j].entity.name[1] = "/"
    /\ Last(folder) # "/"

(* C8: the N of the message 'Exported N files successfully.' is the number *)
(* of times the export manager was executed in the batch.                  *)
C8_CountMatchesExports ==
    \A j \in Boxes("Exported") : messageBoxes[j].text = SuccessText(Len(executed))

(* C9: once shown, the progress dialog is hidden before notify returns,    *)
(* also when an export raised.                                             *)
C9_ProgressHidden ==
    (pc = "done" /\ progress.created) => ~progress.shown

====
